---- MODULE Spec2Model ----
(***************************************************************************)
(* A model of src/main.py, the corrector of the custodian references of a  *)
(* FHIR store (Blaze):                                                     *)
(*                                                                         *)
(*   is_endpoint_available     the availability probe       (SpecProbe)    *)
(*   populate_collections      the collection seeder        (SpecSeed)     *)
(*   populate_collections_ids  the identifier map builder   (SpecSeed)     *)
(*   update_resources          the resource corrector       (SpecCorrect)  *)
(*                                                                         *)
(* The program is sequential.  Every HTTP request is one step; what the    *)
(* store answers (a status, a body, a transport failure) is an input of    *)
(* the step.  A string built by concatenation is modelled as the sequence  *)
(* of its parts: "Organization/" + id is <<"Organization/", id>>, a URL is *)
(* the sequence of its segments.                                           *)
(***************************************************************************)
EXTENDS Integers, Sequences, FiniteSets, TLC

(***************************************************************************)
(* Bounds of the model.                                                    *)
(***************************************************************************)
\* the largest max_attempts the probe is called with
MaxAttempts == 5
\* the longest wait_time, in seconds, the probe is called with
MaxWait == 5
\* the number of successive runs of the seeder and the map builder
MaxRuns == 2
\* the number of Specimen records the store holds
MaxRecs == 2

VARIABLES
    pc,                  \* the place the running function is at
    \* ---- is_endpoint_available
    max_attempts,        \* its parameter
    wait_time,           \* its parameter
    attempts,            \* its local
    requests,            \* the number of GETs it has issued
    slept,               \* the seconds it has slept in all
    result,              \* what it returned: "none" while it runs
    \* ---- the store's Organization records, the seeder, the map builder
    organizations,       \* the store: a sequence of [id, identifier]
    run,                 \* the number of the current run of the program
    collection,          \* the index in COLLECTIONS_TO_ADD the seeder is at
    answer,              \* the body of the last count query, if any: <<body>>
    response,            \* the entries the map-building query returned
    ORGANIZATION_TO_ID,  \* the global dict of line 53
    \* ---- the store's Specimen records and update_resources
    specimens,           \* the store: id -> resource
    pages,               \* the pages the store serves the records in
    entry,               \* the index of the next entry of the current page
    status,              \* request_response.status_code of the last page GET
    gets,                \* the URLs of the page GETs issued, in order
    puts,                \* the PUTs issued, in order: [id, json, delivered]
    working,             \* the ids logged "working on resource with id"
    fault                \* the exception that ended update_resources

probe_vars == <<max_attempts, wait_time, attempts, requests, slept, result>>
seed_vars == <<organizations, run, collection, answer, response>>
correct_vars == <<specimens, pages, entry, status, gets, puts, working, fault>>
vars == <<pc, probe_vars, seed_vars, ORGANIZATION_TO_ID, correct_vars>>

(***************************************************************************)
(* The program's tables.                                                   *)
(***************************************************************************)
Blood_samples == "bbmri-eric:ID:CZ_MMCI:collection:Blood_samples"
Cells == "bbmri-eric:ID:CZ_MMCI:collection:Cells"
DNA == "bbmri-eric:ID:CZ_MMCI:collection:DNA"
Other == "bbmri-eric:ID:CZ_MMCI:collection:Other"
Tissue == "bbmri-eric:ID:CZ_MMCI:collection:Tissue"

\* the identifiers of the catalog, in its order
COLLECTIONS_TO_ADD == <<Blood_samples, Cells, DNA, Other, Tissue>>

TYPE_TO_COLLECTION ==
    ("tissue-frozen" :> Cells) @@ ("tissue-other" :> Cells)
    @@ ("peripheral-blood-cells-vital" :> Cells)
    @@ ("blood-plasma" :> Blood_samples) @@ ("liquid-other" :> Blood_samples)
    @@ ("serum" :> Blood_samples) @@ ("dna" :> DNA)

EmptyDict == [k \in {} |-> 0]

\* the variables a specification does not use stay as they are here
ProbeIdle ==
    /\ max_attempts = 0 /\ wait_time = 0 /\ attempts = 0
    /\ requests = 0 /\ slept = 0 /\ result = "none"

SeedIdle ==
    /\ organizations = <<>> /\ run = 0 /\ collection = 0
    /\ answer = <<>> /\ response = <<>>

CorrectIdle ==
    /\ specimens = <<>> /\ pages = <<>> /\ entry = 0 /\ status = 0
    /\ gets = <<>> /\ puts = <<>> /\ working = <<>> /\ fault = "none"

(***************************************************************************)
(* is_endpoint_available(endpoint_url, max_attempts, wait_time)            *)
(***************************************************************************)
\* a changed loop condition: one attempt too many
LoopConditionInclusive(a, m) == a <= m

\* line 74: while attempts < max_attempts
LoopCondition(a, m) == a < m

ProbeInit ==
    /\ pc = "probe"
    /\ max_attempts \in 0..MaxAttempts
    /\ wait_time \in 1..MaxWait
    /\ attempts = 0 /\ requests = 0 /\ slept = 0 /\ result = "none"
    /\ SeedIdle /\ CorrectIdle /\ ORGANIZATION_TO_ID = EmptyDict

\* lines 76-79: the GET succeeds and raise_for_status passes
ProbeAvailable ==
    /\ pc = "probe"
    /\ LoopCondition(attempts, max_attempts)
    /\ requests' = requests + 1
    /\ result' = "true"
    /\ pc' = "returned"
    /\ UNCHANGED <<max_attempts, wait_time, attempts, slept>>
    /\ UNCHANGED <<seed_vars, ORGANIZATION_TO_ID, correct_vars>>

\* lines 76-77, 80-84: the GET or raise_for_status raises a RequestException
ProbeNotAvailable ==
    /\ pc = "probe"
    /\ LoopCondition(attempts, max_attempts)
    /\ requests' = requests + 1
    /\ attempts' = attempts + 1
    /\ slept' = slept + wait_time
    /\ UNCHANGED <<pc, max_attempts, wait_time, result>>
    /\ UNCHANGED <<seed_vars, ORGANIZATION_TO_ID, correct_vars>>

\* lines 74, 86-87: the loop condition fails
ProbeGivesUp ==
    /\ pc = "probe"
    /\ ~LoopCondition(attempts, max_attempts)
    /\ result' = "false"
    /\ pc' = "returned"
    /\ UNCHANGED <<max_attempts, wait_time, attempts, requests, slept>>
    /\ UNCHANGED <<seed_vars, ORGANIZATION_TO_ID, correct_vars>>

ProbeNext == ProbeAvailable \/ ProbeNotAvailable \/ ProbeGivesUp

\* the probe alone; the program is sequential and runs while it can
SpecProbe == ProbeInit /\ [][ProbeNext]_vars /\ WF_vars(ProbeNext)

(***************************************************************************)
(* The store's Organization records.                                       *)
(***************************************************************************)
\* an Organization record; identifier is identifier[0].value
Organization(id, identifier) == [id |-> id, identifier |-> identifier]

\* the store after the first k collections of the catalog were POSTed to an
\* empty store, the ids being assigned in order
Seeded(k) == [i \in 1..k |-> Organization(i, COLLECTIONS_TO_ADD[i])]

\* the number of records of the store with this identifier
Total(identifier) ==
    Cardinality({i \in DOMAIN organizations :
                    organizations[i].identifier = identifier})

\* the bodies the store can answer the query
\* GET /Organization?identifier=<identifier>&_summary=count with: a Bundle
\* with the total, or a body with no "total" (an OperationOutcome)
CountAnswers(identifier) ==
    {[has_total |-> TRUE, total |-> Total(identifier)],
     [has_total |-> FALSE, total |-> 0]}

(***************************************************************************)
(* is_resource_present_in_blaze(resource_type, identifier), given the body *)
(* of the answer: .get("total") of a body without it is None, and None > 0 *)
(* raises the TypeError that line 105 turns into False.                    *)
(***************************************************************************)
is_resource_present_in_blaze(body) ==
    IF ~body.has_total THEN FALSE ELSE body.total > 0

(***************************************************************************)
(* populate_collections()                                                  *)
(***************************************************************************)
SeedInit ==
    /\ pc = "seed"
    /\ organizations \in {Seeded(k) : k \in 0..Len(COLLECTIONS_TO_ADD)}
    /\ run = 1 /\ collection = 1 /\ answer = <<>> /\ response = <<>>
    /\ ORGANIZATION_TO_ID = EmptyDict
    /\ ProbeIdle /\ CorrectIdle

\* the for loop of line 112 moves on; after the last collection the function
\* returns and the entry point calls populate_collections_ids
NextCollection ==
    /\ collection' = collection + 1
    /\ pc' = IF collection = Len(COLLECTIONS_TO_ADD) THEN "ids" ELSE "seed"

\* lines 113-114, 117-118: the presence check says present
SeedSkip ==
    /\ pc = "seed"
    /\ \E body \in CountAnswers(COLLECTIONS_TO_ADD[collection]) :
          /\ is_resource_present_in_blaze(body)
          /\ answer' = <<body>>
    /\ NextCollection
    /\ UNCHANGED <<organizations, run, response, ORGANIZATION_TO_ID>>
    /\ UNCHANGED <<probe_vars, correct_vars>>

\* lines 113-116: the presence check says absent and the POST is answered;
\* the store assigns the new record its id
SeedPost ==
    /\ pc = "seed"
    /\ \E body \in CountAnswers(COLLECTIONS_TO_ADD[collection]) :
          /\ ~is_resource_present_in_blaze(body)
          /\ answer' = <<body>>
    /\ organizations' =
          Append(organizations,
                 Organization(Len(organizations) + 1,
                              COLLECTIONS_TO_ADD[collection]))
    /\ NextCollection
    /\ UNCHANGED <<run, response, ORGANIZATION_TO_ID>>
    /\ UNCHANGED <<probe_vars, correct_vars>>

\* lines 114-115, 119-121: the GET of the presence check, or the POST after
\* an absent verdict, raises ConnectionError; populate_collections logs it
\* and returns, the remaining collections unseeded
SeedCannotConnect ==
    /\ pc = "seed"
    /\ pc' = "ids"
    /\ UNCHANGED <<organizations, run, collection, answer, response,
                   ORGANIZATION_TO_ID>>
    /\ UNCHANGED <<probe_vars, correct_vars>>

(***************************************************************************)
(* populate_collections_ids()                                              *)
(***************************************************************************)
\* a changed line 130: an identifier already in the dict keeps its id
SetItemOnce(dict, key, value) ==
    IF key \in DOMAIN dict
    THEN dict
    ELSE [k \in DOMAIN dict \cup {key} |-> IF k = key THEN value ELSE dict[k]]

\* line 130: dict[key] = value
SetItem(dict, key, value) ==
    [k \in DOMAIN dict \cup {key} |-> IF k = key THEN value ELSE dict[k]]

\* lines 128-131: the loop over the entries, from entry i on
RECURSIVE PopulateIds(_, _, _)
PopulateIds(entries, i, dict) ==
    IF i > Len(entries)
    THEN dict
    ELSE PopulateIds(entries, i + 1,
                     SetItem(dict, entries[i].identifier, entries[i].id))

\* lines 126-131: GET /Organization is answered with the records of the store
\* (one page: the store holds less than a page of them)
MapBuilt ==
    /\ pc = "ids"
    /\ organizations # <<>>
    /\ response' = organizations
    /\ ORGANIZATION_TO_ID' = PopulateIds(organizations, 1, ORGANIZATION_TO_ID)
    /\ pc' = "ran"
    /\ UNCHANGED <<organizations, run, collection, answer>>
    /\ UNCHANGED <<probe_vars, correct_vars>>

\* line 128: the store holds no Organization, the Bundle has no "entry"
\* (FHIR JSON has no empty arrays) and response_json["entry"] raises KeyError
MapNoEntry ==
    /\ pc = "ids"
    /\ organizations = <<>>
    /\ pc' = "raised"
    /\ UNCHANGED <<seed_vars, ORGANIZATION_TO_ID>>
    /\ UNCHANGED <<probe_vars, correct_vars>>

\* lines 126, 132-134: the GET raises ConnectionError
MapCannotConnect ==
    /\ pc = "ids"
    /\ pc' = "ran"
    /\ UNCHANGED <<seed_vars, ORGANIZATION_TO_ID>>
    /\ UNCHANGED <<probe_vars, correct_vars>>

\* lines 200-203: the program is run again, a new process with an empty
\* ORGANIZATION_TO_ID (line 53) against the store as the last run left it
RunAgain ==
    /\ pc \in {"ran", "raised"}
    /\ run < MaxRuns
    /\ run' = run + 1
    /\ collection' = 1 /\ answer' = <<>> /\ response' = <<>>
    /\ ORGANIZATION_TO_ID' = EmptyDict
    /\ pc' = "seed"
    /\ UNCHANGED organizations
    /\ UNCHANGED <<probe_vars, correct_vars>>

SeedNext ==
    \/ SeedSkip \/ SeedPost \/ SeedCannotConnect
    \/ MapBuilt \/ MapNoEntry \/ MapCannotConnect
    \/ RunAgain

\* the seeder and the map builder, run after run
SpecSeed == SeedInit /\ [][SeedNext]_vars

(***************************************************************************)
(* The store's Specimen records and the pages it serves them in.           *)
(***************************************************************************)
CustodianUrl == "https://fhir.bbmri.de/StructureDefinition/Custodian"
StorageTemperatureUrl ==
    "https://fhir.bbmri.de/StructureDefinition/StorageTemperature"

\* "Organization/" + id
Reference(id) == <<"Organization/", id>>

\* a Custodian extension; reference is valueReference.reference
Custodian(reference) == [url |-> CustodianUrl, reference |-> reference]

\* an extension that is no Custodian (it carries no valueReference)
StorageTemperature == [url |-> StorageTemperatureUrl, reference |-> <<"", 0>>]

\* a Specimen: type_code is type.coding[0].code; has_extension says whether
\* the record has the key "extension" (a FHIR record has no empty list).
\* type is a CodeableConcept, a dict, in every record.
Specimen(id, type_code, has_extension, extension) ==
    [id |-> id, type_code |-> type_code,
     has_extension |-> has_extension, extension |-> extension]

\* two codes of TYPE_TO_COLLECTION and one that is not in it
TypeCodes == {"dna", "serum", "saliva"}

\* the extension lists of the records of the store: none, no Custodian, one
\* Custodian (of the Blood_samples or of the DNA organization of Seeded),
\* two Custodians
Extensions ==
    {[has |-> FALSE, list |-> <<>>],
     [has |-> TRUE, list |-> <<StorageTemperature>>],
     [has |-> TRUE, list |-> <<Custodian(Reference(1))>>],
     [has |-> TRUE, list |-> <<Custodian(Reference(3))>>],
     [has |-> TRUE,
      list |-> <<Custodian(Reference(1)), Custodian(Reference(3))>>]}

\* the stores of n records
Stores(n) ==
    {[id \in 1..n |-> Specimen(id, shape[id][1], shape[id][2].has,
                               shape[id][2].list)] :
        shape \in [1..n -> TypeCodes \X Extensions]}

\* BLAZE_URL of config, and the base the store writes into its links, each
\* with the marker "/fhir" or without it
BLAZE_URL == <<"http://blaze:8080", "/fhir">>
LinkBase == <<"http://localhost:8080", "/fhir">>
LinkBaseNoMarker == <<"http://localhost:8080", "/store">>

\* a URL: the segments of its path, and the page its query string names
Url(path, page) == [path |-> path, page |-> page]

Link(relation, url) == [relation |-> relation, url |-> url]

\* the page the store answers a GET of this URL with: 0 if it has none
PageAt(url) ==
    IF url.path = BLAZE_URL \o <<"/Specimen">> /\ url.page \in DOMAIN pages
    THEN url.page
    ELSE 0

\* the entries of page i of n records served size to a page
Entries(i, n, size) ==
    [k \in 1..(IF i * size <= n THEN size ELSE n - (i - 1) * size)
        |-> (i - 1) * size + k]

\* the pages of n records, size to a page; the links of a page that has a
\* successor are written in the given style
Paging(n, size, style) ==
    LET count == (n + size - 1) \div size
        self(i) == Link("self", Url(LinkBase \o <<"/Specimen">>, i))
        next(i) ==
            Link("next",
                 Url((IF style = "no marker" THEN LinkBaseNoMarker
                      ELSE LinkBase) \o <<"/Specimen">>, i + 1))
    IN  [i \in 1..count |->
            [entry |-> Entries(i, n, size),
             link |-> IF i = count THEN <<self(i)>>
                      ELSE IF style = "next first" THEN <<next(i), self(i)>>
                      ELSE <<self(i), next(i)>>]]

LinkStyles == {"next last", "next first", "no marker"}

\* the dicts populate_collections_ids builds of a store seeded in full and
\* of one seeded in part
OrganizationDicts ==
    {PopulateIds(Seeded(k), 1, EmptyDict) : k \in {2, Len(COLLECTIONS_TO_ADD)}}

(***************************************************************************)
(* update_resources: the correction of one record, lines 146-181.          *)
(***************************************************************************)
\* a changed line 159: the reference is compared with the bare id
ReferenceOfBareId(dict, collection_id) == <<"", dict[collection_id]>>

\* lines 159-162, 179: "Organization/" + ORGANIZATION_TO_ID[collection_id]
ReferenceOf(dict, collection_id) == Reference(dict[collection_id])

\* the locals of the loop body
Locals(resource) ==
    [extension |-> resource.extension, updated |-> FALSE,
     collection_present |-> FALSE, raised |-> "none"]

\* lines 151-164: the loop over the extensions, from extension i on; a
\* lookup of a missing key raises KeyError
RECURSIVE ScanExtensions(_, _, _, _)
ScanExtensions(st, i, type_code, dict) ==
    IF i > Len(st.extension)
    THEN st
    ELSE IF st.extension[i].url # CustodianUrl
    THEN ScanExtensions(st, i + 1, type_code, dict)
    ELSE IF type_code \notin DOMAIN TYPE_TO_COLLECTION
    THEN [st EXCEPT !.collection_present = TRUE, !.raised = "KeyError"]
    ELSE IF TYPE_TO_COLLECTION[type_code] \notin DOMAIN dict
    THEN [st EXCEPT !.collection_present = TRUE, !.raised = "KeyError"]
    ELSE LET reference == ReferenceOf(dict, TYPE_TO_COLLECTION[type_code])
         IN  IF st.extension[i].reference # reference
             THEN ScanExtensions(
                      [st EXCEPT !.collection_present = TRUE,
                                 !.extension[i].reference = reference,
                                 !.updated = TRUE],
                      i + 1, type_code, dict)
             ELSE ScanExtensions([st EXCEPT !.collection_present = TRUE],
                                 i + 1, type_code, dict)

\* a changed line 165: a Custodian is appended whenever none was rewritten
NoCustodianOrNotUpdated(st) == ~st.collection_present \/ ~st.updated

\* line 165: if not collection_present
NoCustodian(st) == ~st.collection_present

\* lines 165-181: the record has no Custodian.  Without the key "extension"
\* line 171 tests resource["type"] not in TYPE_TO_COLLECTION: the operand is
\* the CodeableConcept, a dict, and hashing it raises TypeError, whatever the
\* type code is.  With the key, line 177 looks the type code up.
AppendCustodian(st, resource, dict) ==
    IF ~NoCustodian(st)
    THEN st
    ELSE IF ~resource.has_extension
    THEN [st EXCEPT !.updated = TRUE, !.raised = "TypeError"]
    ELSE IF resource.type_code \notin DOMAIN TYPE_TO_COLLECTION
    THEN [st EXCEPT !.updated = TRUE, !.raised = "KeyError"]
    ELSE IF TYPE_TO_COLLECTION[resource.type_code] \notin DOMAIN dict
    THEN [st EXCEPT !.updated = TRUE, !.raised = "KeyError"]
    ELSE [st EXCEPT
            !.updated = TRUE,
            !.extension =
                Append(st.extension,
                       Custodian(ReferenceOf(
                           dict, TYPE_TO_COLLECTION[resource.type_code])))]

\* lines 146-181: the locals after the body, before the PUT
Correct(resource, dict) ==
    LET scanned ==
            IF resource.has_extension
            THEN ScanExtensions(Locals(resource), 1, resource.type_code, dict)
            ELSE Locals(resource)
    IN  IF scanned.raised # "none"
        THEN scanned
        ELSE AppendCustodian(scanned, resource, dict)

\* the record as the body left it: json=resource of line 184
Json(resource, st) ==
    [resource EXCEPT !.extension = st.extension,
                     !.has_extension = @ \/ st.extension # <<>>]

\* a changed handler: except Exception
ExceptAny(exception) == "returned"

\* lines 195-197: except requests.exceptions.ConnectionError returns 0, any
\* other exception leaves update_resources
Except(exception) ==
    IF exception = "ConnectionError" THEN "returned" ELSE "raised"

(***************************************************************************)
(* update_resources(resource_type), resource_type = "Specimen"             *)
(***************************************************************************)
CorrectInit ==
    /\ pc = "start"
    /\ ORGANIZATION_TO_ID \in OrganizationDicts
    /\ \E n \in 1..MaxRecs :
          /\ specimens \in Stores(n)
          /\ \E size \in 1..n, style \in LinkStyles :
                pages = Paging(n, size, style)
    /\ entry = 0 /\ status = 0
    /\ gets = <<>> /\ puts = <<>> /\ working = <<>> /\ fault = "none"
    /\ ProbeIdle /\ SeedIdle

\* the page the last GET was answered with
Page == pages[PageAt(gets[Len(gets)])]

\* a GET of a page is answered: with 200 the while loop of line 141 takes
\* the page, with another status it ends and update_resources returns
Answered(url, code) ==
    /\ gets' = Append(gets, url)
    /\ status' = code
    /\ entry' = 1
    /\ pc' = IF code = 200 THEN "page" ELSE "done"
    /\ UNCHANGED <<specimens, pages, puts, working, fault>>

\* a request raises ConnectionError
CannotConnect ==
    /\ fault' = "ConnectionError"
    /\ pc' = Except("ConnectionError")

\* lines 139-141: the first GET
FirstPage ==
    /\ pc = "start"
    /\ \E code \in {200, 404} :
          Answered(Url(BLAZE_URL \o <<"/Specimen">>, 1), code)
    /\ UNCHANGED <<probe_vars, seed_vars, ORGANIZATION_TO_ID>>

\* line 139 raises ConnectionError
FirstPageCannotConnect ==
    /\ pc = "start"
    /\ CannotConnect
    /\ UNCHANGED <<specimens, pages, entry, status, gets, puts, working>>
    /\ UNCHANGED <<probe_vars, seed_vars, ORGANIZATION_TO_ID>>

\* the record of the entry the loop of line 143 is at
Resource == specimens[Page.entry[entry]]

\* lines 144-182: the record needs no update and is not PUT
EntryKept ==
    /\ pc = "page" /\ entry <= Len(Page.entry)
    /\ LET st == Correct(Resource, ORGANIZATION_TO_ID)
       IN  st.raised = "none" /\ ~st.updated
    /\ working' = Append(working, Resource.id)
    /\ entry' = entry + 1
    /\ UNCHANGED <<pc, specimens, pages, status, gets, puts, fault>>
    /\ UNCHANGED <<probe_vars, seed_vars, ORGANIZATION_TO_ID>>

\* lines 144-185: the record is updated and the PUT is answered; the store
\* holds the record PUT
EntryPut ==
    /\ pc = "page" /\ entry <= Len(Page.entry)
    /\ LET st == Correct(Resource, ORGANIZATION_TO_ID)
       IN  /\ st.raised = "none" /\ st.updated
           /\ puts' = Append(puts, [id |-> Resource.id,
                                    json |-> Json(Resource, st),
                                    delivered |-> TRUE])
           /\ specimens' =
                 [specimens EXCEPT ![Resource.id] = Json(Resource, st)]
    /\ working' = Append(working, Resource.id)
    /\ entry' = entry + 1
    /\ UNCHANGED <<pc, pages, status, gets, fault>>
    /\ UNCHANGED <<probe_vars, seed_vars, ORGANIZATION_TO_ID>>

\* lines 144-184, 195-197: the record is updated and the PUT raises
\* ConnectionError
EntryPutCannotConnect ==
    /\ pc = "page" /\ entry <= Len(Page.entry)
    /\ LET st == Correct(Resource, ORGANIZATION_TO_ID)
       IN  /\ st.raised = "none" /\ st.updated
           /\ puts' = Append(puts, [id |-> Resource.id,
                                    json |-> Json(Resource, st),
                                    delivered |-> FALSE])
    /\ working' = Append(working, Resource.id)
    /\ CannotConnect
    /\ UNCHANGED <<specimens, pages, entry, status, gets>>
    /\ UNCHANGED <<probe_vars, seed_vars, ORGANIZATION_TO_ID>>

\* lines 144-179: the body raises KeyError or TypeError
EntryRaises ==
    /\ pc = "page" /\ entry <= Len(Page.entry)
    /\ LET st == Correct(Resource, ORGANIZATION_TO_ID)
       IN  /\ st.raised # "none"
           /\ fault' = st.raised
           /\ pc' = Except(st.raised)
    /\ working' = Append(working, Resource.id)
    /\ UNCHANGED <<specimens, pages, entry, status, gets, puts>>
    /\ UNCHANGED <<probe_vars, seed_vars, ORGANIZATION_TO_ID>>

\* a changed line 186: the first link
FirstLink(link) == link[1]

\* line 186: response_json["link"][-1]
LastLink(link) == link[Len(link)]

\* line 189: url.find("/fhir"), on the segments: the place of the first
\* "/fhir", 0 for -1
Find(path) ==
    IF \E k \in DOMAIN path : path[k] = "/fhir"
    THEN CHOOSE k \in DOMAIN path :
            /\ path[k] = "/fhir"
            /\ \A j \in 1..(k - 1) : path[j] # "/fhir"
    ELSE 0

\* line 192: BLAZE_URL + url[index + len("/fhir"):]
NextLink(url) ==
    Url(BLAZE_URL \o SubSeq(url.path, Find(url.path) + 1, Len(url.path)),
        url.page)

\* lines 186-191: the page is done and the last link is no "next" link, or
\* its URL has no "/fhir": break
LastPage ==
    /\ pc = "page" /\ entry > Len(Page.entry)
    /\ \/ LastLink(Page.link).relation # "next"
       \/ Find(LastLink(Page.link).url.path) = 0
    /\ pc' = "done"
    /\ UNCHANGED correct_vars
    /\ UNCHANGED <<probe_vars, seed_vars, ORGANIZATION_TO_ID>>

\* lines 186-193: the page is done and the next page is fetched
NextPage ==
    /\ pc = "page" /\ entry > Len(Page.entry)
    /\ LastLink(Page.link).relation = "next"
    /\ Find(LastLink(Page.link).url.path) # 0
    /\ PageAt(NextLink(LastLink(Page.link).url)) # 0
    /\ \E code \in {200, 404} :
          Answered(NextLink(LastLink(Page.link).url), code)
    /\ UNCHANGED <<probe_vars, seed_vars, ORGANIZATION_TO_ID>>

\* line 193 raises ConnectionError
NextPageCannotConnect ==
    /\ pc = "page" /\ entry > Len(Page.entry)
    /\ LastLink(Page.link).relation = "next"
    /\ Find(LastLink(Page.link).url.path) # 0
    /\ CannotConnect
    /\ UNCHANGED <<specimens, pages, entry, status, gets, puts, working>>
    /\ UNCHANGED <<probe_vars, seed_vars, ORGANIZATION_TO_ID>>

CorrectNext ==
    \/ FirstPage \/ FirstPageCannotConnect
    \/ EntryKept \/ EntryPut \/ EntryPutCannotConnect \/ EntryRaises
    \/ LastPage \/ NextPage \/ NextPageCannotConnect

\* update_resources alone, with a dict populate_collections_ids built
SpecCorrect == CorrectInit /\ [][CorrectNext]_vars

(***************************************************************************)
(* What the claims speak of.                                               *)
(***************************************************************************)
\* the places of the Custodian extensions of an extension list
Custodians(extension) ==
    {i \in DOMAIN extension : extension[i].url = CustodianUrl}

\* the record's type code is mapped to a collection whose organization the
\* dict knows
Resolvable(resource) ==
    /\ resource.type_code \in DOMAIN TYPE_TO_COLLECTION
    /\ TYPE_TO_COLLECTION[resource.type_code] \in DOMAIN ORGANIZATION_TO_ID

\* "Organization/" + ORGANIZATION_TO_ID[TYPE_TO_COLLECTION[type code]]
Expected(resource) ==
    <<"Organization/",
      ORGANIZATION_TO_ID[TYPE_TO_COLLECTION[resource.type_code]]>>

\* every Custodian extension of the list refers to this reference
AllRefer(extension, reference) ==
    \A i \in Custodians(extension) : extension[i].reference = reference

\* this step is the loop body of update_resources working on a record
Works == Len(working') = Len(working) + 1

\* the record the step works on, as the store held it before the step
Worked == specimens[working'[Len(working')]]

\* the step issues a PUT
Puts == Len(puts') = Len(puts) + 1

\* the PUT the step issues
Put == puts'[Len(puts')]

\* the step finishes the record: the body ran to its end with no exception
Finishes == Works /\ fault' = "none"

(***************************************************************************)
(* C1.  update_resources, for a record with no Custodian extension (with   *)
(* or without an extension list) whose type code is in TYPE_TO_COLLECTION: *)
(* once the record is processed, the record PUT has exactly one Custodian  *)
(* extension, and it refers to "Organization/" + ORGANIZATION_TO_ID of the *)
(* collection of the type code.                                            *)
(***************************************************************************)
C1_CustodianAdded ==
    [][(Works /\ Custodians(Worked.extension) = {} /\ Resolvable(Worked))
        => /\ Puts
           /\ Put.id = Worked.id
           /\ Cardinality(Custodians(Put.json.extension)) = 1
           /\ AllRefer(Put.json.extension, Expected(Worked))]_vars

(***************************************************************************)
(* C2.  update_resources, for a record with a Custodian extension whose    *)
(* reference differs from "Organization/" + ORGANIZATION_TO_ID of the      *)
(* collection of its type code: the reference is overwritten with exactly  *)
(* that value, nothing else of the record changes, the record is PUT, and  *)
(* the store that answers the PUT holds the corrected record.              *)
(***************************************************************************)
C2_ReferenceCorrected ==
    [][(/\ Works
        /\ Resolvable(Worked)
        /\ \E i \in Custodians(Worked.extension) :
              Worked.extension[i].reference # Expected(Worked))
        => /\ Puts
           /\ Put.id = Worked.id
           /\ Len(Put.json.extension) = Len(Worked.extension)
           /\ \A i \in DOMAIN Worked.extension :
                 Put.json.extension[i] =
                    IF i \in Custodians(Worked.extension)
                    THEN [Worked.extension[i] EXCEPT
                            !.reference = Expected(Worked)]
                    ELSE Worked.extension[i]
           /\ Put.json.type_code = Worked.type_code
           /\ Put.delivered => specimens'[Worked.id] = Put.json]_vars

\* a record whose one Custodian was rewritten is in the store as it was PUT
C2_Witness ==
    \E k \in DOMAIN puts :
        /\ puts[k].delivered
        /\ specimens[puts[k].id] = puts[k].json
        /\ Len(puts[k].json.extension) = 1
        /\ Custodians(puts[k].json.extension) = {1}
        /\ Resolvable(puts[k].json)
        /\ puts[k].json.extension[1].reference = Expected(puts[k].json)

(***************************************************************************)
(* C3.  update_resources issues no PUT for a record that is already        *)
(* correct (it has a Custodian extension and every such extension refers   *)
(* to the expected organization): the record stays as it is in the store.  *)
(* A PUT is issued only for a record the loop body changed.                *)
(***************************************************************************)
C3_NoPutWhenCorrect ==
    [][/\ (/\ Works
           /\ Resolvable(Worked)
           /\ Custodians(Worked.extension) # {}
           /\ AllRefer(Worked.extension, Expected(Worked)))
          => (puts' = puts /\ specimens' = specimens /\ fault' = "none")
       /\ Puts => (Works /\ Put.id = Worked.id /\ Put.json # Worked)]_vars

\* a record was processed to the end and nothing was PUT
C3_Witness ==
    /\ pc = "page" /\ entry = 2 /\ Len(working) = 1
    /\ puts = <<>> /\ fault = "none"
    /\ Custodians(specimens[working[1]].extension) # {}

(***************************************************************************)
(* C4.  update_resources, for a record with no Custodian extension whose   *)
(* type code is not in TYPE_TO_COLLECTION: the fallback collection is      *)
(* used, that is a Custodian extension referring to the organization of    *)
(* bbmri-eric:ID:CZ_MMCI:collection:Other is appended and the record is    *)
(* PUT, and no exception is raised.                                        *)
(***************************************************************************)
C4_FallbackCollection ==
    [][(/\ Works
        /\ Custodians(Worked.extension) = {}
        /\ Worked.type_code \notin DOMAIN TYPE_TO_COLLECTION
        /\ Other \in DOMAIN ORGANIZATION_TO_ID)
        => /\ fault' \in {"none", "ConnectionError"}
           /\ Puts
           /\ Put.id = Worked.id
           /\ Cardinality(Custodians(Put.json.extension)) = 1
           /\ AllRefer(Put.json.extension,
                       <<"Organization/", ORGANIZATION_TO_ID[Other]>>)]_vars

(***************************************************************************)
(* The chain of pages, read off the pages the store serves.                *)
(***************************************************************************)
\* the URL a GET of page i is issued with
PageUrl(i) == [path |-> <<"http://blaze:8080", "/fhir", "/Specimen">>,
               page |-> i]

\* the URL of the link has the marker "/fhir"
HasMarker(link) == \E k \in DOMAIN link.url.path : link.url.path[k] = "/fhir"

\* page i has a "next" link with the marker, anywhere among its links
NamesNext(i) ==
    \E k \in DOMAIN pages[i].link :
        pages[i].link[k].relation = "next" /\ HasMarker(pages[i].link[k])

\* the last link of page i is a "next" link with the marker
NamesNextLast(i) ==
    LET link == pages[i].link[Len(pages[i].link)]
    IN  link.relation = "next" /\ HasMarker(link)

\* the last page of the chain that starts at page i: the first page with no
\* "next" link or with one whose URL lacks the marker
RECURSIVE ChainEnd(_)
ChainEnd(i) == IF i < Len(pages) /\ NamesNext(i) THEN ChainEnd(i + 1) ELSE i

\* the entries of pages 1..n, in order
RECURSIVE EntriesTo(_)
EntriesTo(n) == IF n = 0 THEN <<>> ELSE EntriesTo(n - 1) \o pages[n].entry

\* s is the beginning of t
Prefix(s, t) == Len(s) <= Len(t) /\ s = SubSeq(t, 1, Len(s))

(***************************************************************************)
(* C5 as claimed.  Pagination: from the first page on, the page named by   *)
(* the "next" link of the current page is fetched until a page has no      *)
(* "next" link or the link URL lacks "/fhir"; when the loop stops every    *)
(* page of that chain was fetched and processed exactly once.              *)
(***************************************************************************)
C5_WholeChainVisited ==
    pc = "done" =>
        /\ gets = [i \in 1..ChainEnd(1) |-> PageUrl(i)]
        /\ working = EntriesTo(ChainEnd(1))

(***************************************************************************)
(* C5 as amended.  The pages are fetched in the order of the chain, each   *)
(* once, a page being fetched only when the last link of the page before   *)
(* it is a "next" link with "/fhir" in its URL, and the entries of the     *)
(* pages answered with 200 are processed in order, each once; the loop     *)
(* stops when the last link of the current page is no such link, or when a *)
(* GET is answered with a status other than 200, and that page is not      *)
(* processed.                                                              *)
(***************************************************************************)
C5_ChainFollowed ==
    /\ gets = [i \in 1..Len(gets) |-> PageUrl(i)]
    /\ \A i \in 1..(Len(gets) - 1) : NamesNextLast(i)
    /\ Prefix(working, EntriesTo(Len(gets)))
    /\ gets # <<>> =>
          Prefix(EntriesTo(Len(gets) - 1), working)
    /\ pc = "done" =>
          \/ /\ status # 200
             /\ working = EntriesTo(Len(gets) - 1)
          \/ /\ status = 200
             /\ working = EntriesTo(Len(gets))
             /\ ~NamesNextLast(Len(gets))

\* the loop ended after two pages, both processed
C5_Witness ==
    /\ pc = "done" /\ status = 200
    /\ Len(gets) = 2 /\ Len(pages) = 2
    /\ working = <<1, 2>>

(***************************************************************************)
(* C7 as claimed.  Every record update_resources finishes processing ends  *)
(* up in the store with exactly one Custodian extension, which refers to   *)
(* the organization of the record's mapped collection, whatever extension  *)
(* list it had, one with more than one Custodian extension included.       *)
(***************************************************************************)
C7_ExactlyOneCustodian ==
    [][Finishes =>
        /\ Cardinality(Custodians(specimens'[Worked.id].extension)) = 1
        /\ AllRefer(specimens'[Worked.id].extension, Expected(Worked))]_vars

(***************************************************************************)
(* C7 as amended.  Every record update_resources finishes processing ends  *)
(* up in the store with at least one Custodian extension, every Custodian  *)
(* extension of it refers to the organization of the record's mapped       *)
(* collection, and it has exactly one if it had at most one when fetched   *)
(* (as many as it had otherwise); the store changes no other record.       *)
(***************************************************************************)
C7_CustodiansCorrect ==
    [][/\ Finishes =>
          /\ Resolvable(Worked)
          /\ Custodians(specimens'[Worked.id].extension) # {}
          /\ AllRefer(specimens'[Worked.id].extension, Expected(Worked))
          /\ Cardinality(Custodians(specimens'[Worked.id].extension)) =
                IF Custodians(Worked.extension) = {}
                THEN 1
                ELSE Cardinality(Custodians(Worked.extension))
       /\ \A id \in DOMAIN specimens :
             specimens'[id] # specimens[id] => (Works /\ id = Worked.id)]_vars

\* a record with no Custodian and one with two were both finished
C7_Witness ==
    /\ Len(working) = 2 /\ fault = "none" /\ pc = "done"
    /\ \E id \in DOMAIN specimens :
          Cardinality(Custodians(specimens[id].extension)) = 2
    /\ \E k \in DOMAIN puts :
          /\ puts[k].delivered
          /\ Len(puts[k].json.extension) = 2
          /\ Custodians(puts[k].json.extension) = {2}

(***************************************************************************)
(* C10.  update_resources and faults: a lookup miss while a record is      *)
(* processed (type code not in TYPE_TO_COLLECTION, collection not in       *)
(* ORGANIZATION_TO_ID) is not caught and leaves update_resources; a        *)
(* ConnectionError of a GET or PUT is caught and update_resources returns. *)
(* After either, nothing more is fetched, processed or PUT, and every      *)
(* record PUT before stays as it was PUT in the store.                     *)
(***************************************************************************)
C10_Faults ==
    /\ [](fault \in {"KeyError", "TypeError"} => pc = "raised")
    /\ [](fault = "ConnectionError" => pc = "returned")
    /\ [](\A k \in DOMAIN puts :
            puts[k].delivered => specimens[puts[k].id] = puts[k].json)
    /\ [][/\ fault # "none" =>
             UNCHANGED <<gets, puts, working, specimens, fault, pc>>
          /\ (/\ Works
              /\ Worked.has_extension
              /\ ~Resolvable(Worked))
             => (fault' = "KeyError" /\ pc' = "raised" /\ puts' = puts)]_vars

\* a record was PUT, and then a lookup missed
C10_Witness ==
    /\ fault = "KeyError" /\ pc = "raised"
    /\ Len(puts) = 1 /\ puts[1].delivered
    /\ Len(working) = 2

(***************************************************************************)
(* C6.  populate_collections is idempotent: for every collection of        *)
(* COLLECTIONS_TO_ADD, after any number of runs the store holds at most    *)
(* one Organization record with its identifier.                            *)
(***************************************************************************)
C6_AtMostOnePerIdentifier ==
    \A k \in DOMAIN COLLECTIONS_TO_ADD :
        Cardinality({i \in DOMAIN organizations :
                        organizations[i].identifier = COLLECTIONS_TO_ADD[k]})
            <= 1

(***************************************************************************)
(* What populate_collections_ids was answered with.                        *)
(***************************************************************************)
\* the place of the last returned record with the identifier of record i
LastWith(i) ==
    CHOOSE j \in DOMAIN response :
        /\ response[j].identifier = response[i].identifier
        /\ \A k \in DOMAIN response :
              response[k].identifier = response[i].identifier => k <= j

(***************************************************************************)
(* C8 as claimed.  populate_collections_ids: for every Organization record *)
(* the query returned, ORGANIZATION_TO_ID has an entry keyed by the        *)
(* record's first identifier value whose value is the record's id.         *)
(***************************************************************************)
C8_EveryRecordMapped ==
    pc = "ran" =>
        \A i \in DOMAIN response :
            /\ response[i].identifier \in DOMAIN ORGANIZATION_TO_ID
            /\ ORGANIZATION_TO_ID[response[i].identifier] = response[i].id

(***************************************************************************)
(* C8 as amended.  populate_collections_ids: for every Organization record *)
(* the query returned, ORGANIZATION_TO_ID has an entry keyed by the        *)
(* record's first identifier value, whose value is the id of the last      *)
(* returned record with that first identifier value: the record's own id   *)
(* if no later record shares its identifier.  The dict has no other key.   *)
(***************************************************************************)
C8_LastRecordMapped ==
    pc = "ran" =>
        /\ \A i \in DOMAIN response :
              /\ response[i].identifier \in DOMAIN ORGANIZATION_TO_ID
              /\ ORGANIZATION_TO_ID[response[i].identifier] =
                    response[LastWith(i)].id
        /\ DOMAIN ORGANIZATION_TO_ID =
              {response[i].identifier : i \in DOMAIN response}

\* the query returned two records with one identifier
C8_Witness ==
    /\ pc = "ran"
    /\ \E i, j \in DOMAIN response :
          /\ i < j
          /\ response[i].identifier = response[j].identifier
          /\ ORGANIZATION_TO_ID[response[i].identifier] = response[j].id

(***************************************************************************)
(* C9.  is_endpoint_available never raises and always ends: it returns     *)
(* true at the first attempt whose GET succeeds and issues no further GET, *)
(* it returns false after exactly max_attempts failed attempts, it sleeps  *)
(* wait_time once after each failed attempt, and it never issues more than *)
(* max_attempts GETs.                                                      *)
(***************************************************************************)
C9_ProbeReturns ==
    /\ [](/\ requests <= max_attempts
          /\ slept = attempts * wait_time
          /\ pc \in {"probe", "returned"}
          /\ result = "none" <=> pc = "probe"
          /\ result = "none" => requests = attempts
          /\ result = "true" => requests = attempts + 1
          /\ result = "false" =>
                /\ requests = max_attempts
                /\ attempts = max_attempts
                /\ slept = max_attempts * wait_time)
    /\ [][result # "none" => UNCHANGED <<requests, slept, result>>]_vars
    /\ <>(result # "none")

\* five failed attempts five seconds apart: false after 25 seconds
C9_Witness ==
    /\ result = "false"
    /\ max_attempts = 5 /\ wait_time = 5
    /\ requests = 5 /\ slept = 25

====
